---- MODULE Spec2Model ----
(***************************************************************************)
(* Model of the HOM delay-temperature map acquisition:                     *)
(*   src/meas_dir.py  - meas_dir, the GUI counter sampler                   *)
(*   src/hom_scan.py  - main, the temperature / delay sweep                 *)
(*                                                                         *)
(* Numbers.  Counter texts are sequences of one-character strings and are  *)
(* parsed as the code parses them.  A float mean is the exact fraction     *)
(* <<sum, n>>; a float standard deviation is carried by its square, the    *)
(* exact fraction <<sum of squared deviations * n^2, n^3>> (np.std is the  *)
(* square root of that value; the root itself is not computed here).      *)
(* Temperatures are exact multiples of 0.05 degC (TICKS_PER_TENTH ticks    *)
(* per 0.1 degC); float rounding noise of np.arange is not modelled.       *)
(***************************************************************************)
EXTENDS Integers, Sequences, FiniteSets, TLC

\* ------------------------------------------------------------------ bounds
\* largest repetition count handed to meas_dir in the sampler specification
MaxTimes == 2
\* largest total travel (controller counts) and step of the delay scan
MaxTravel == 3
MaxStep == 3
\* largest temperature step and span of the sweep, in ticks of 0.05 degC
MaxTStep == 2
MaxTSpan == 3
\* how often the counters of the apparatus change level during one run
MaxDrift == 1
\* the latest read of one sample call at which a read fault is injected
MaxFaultAt == 1

\* --------------------------------------------------------- program constants
\* MEAS_SECONDS of hom_scan.py: repetitions handed to the sampler
MEAS_SECONDS == 5
\* T_START of hom_scan.py, 45.0 degC, in ticks of 0.05 degC
T_START == 900
\* ticks of 0.05 degC in 0.1 degC, the resolution of round(tset, 1)
TICKS_PER_TENTH == 2

VARIABLES
    \* ---- sampler specification (meas_dir called on its own)
    s_times,        \* the argument times
    s_src,          \* the reading source: [win, reply]
    s_out,          \* the outcome of the call, or NoCall before it
    \* ---- run configuration (module constants of hom_scan.py)
    N_PAS_COUNTS, STEP_COUNTS, T_STOP, T_STEP,
    meas_dir_1sec,  \* what the global name meas_dir_1sec resolves to at call time
    \* ---- main()
    pc,             \* position in main
    port_y,         \* actuator transport: "unopened" | "open" | "closed"
    tc,             \* temperature controller session: "unopened" | "open" | "released"
    ti,             \* index of tset in T_vec (1-based), 0 before the loop
    pos_idx,        \* index of pos_counts in Y_COUNTS (1-based)
    jj,             \* the write index of the code (0-based)
    line,           \* the six line_* arrays, as one sequence of 6-tuples
    reading,        \* (V, H, C, eV, eH, eC) of the last measure_point
    files,          \* output directory: key -> rows
    raised,         \* the exception in flight, "none" when there is none
    \* ---- the apparatus and the observation of the run
    src_level,      \* index of the level the counters show
    drift,          \* level changes so far
    frames,         \* frames written to the actuator transport
    setpoints,      \* values written to tc.temperature_set
    reads,          \* reads of the reading source so far
    console,        \* the progress observations printed
    measured,       \* history: [line, idx, val] per returned measure_point
    written,        \* history: [line, key, rows] per np.savetxt
    closes,         \* history of release calls: "port_y", "tc"
    events          \* history of the phases of main: [ev, line, idx]

svars == <<s_times, s_src, s_out>>
cvars == <<N_PAS_COUNTS, STEP_COUNTS, T_STOP, T_STEP, meas_dir_1sec>>
mvars == <<pc, port_y, tc, ti, pos_idx, jj, line, reading, files, raised>>
evars == <<src_level, drift, frames, setpoints, reads, console, measured, written, closes>>
mvars_but_pc == <<port_y, tc, ti, pos_idx, jj, line, reading, files, raised>>
vars == <<svars, cvars, mvars, evars, events>>

\* ------------------------------------------------------------ small helpers
Max(a, b) == IF a >= b THEN a ELSE b

RECURSIVE SumSeq(_)
SumSeq(s) == IF s = <<>> THEN 0 ELSE Head(s) + SumSeq(Tail(s))

Range(s) == {s[i] : i \in DOMAIN s}

\* fractions <<num, den>>, den > 0, compared by cross-multiplication
FracEq(a, b) == a[1] * b[2] = b[1] * a[2]
FracOfInt(n) == <<n, 1>>
FracIsZero(a) == a[1] = 0

\* ------------------------------------------------- meas_dir.py: text parsing
DigitChars == <<"0", "1", "2", "3", "4", "5", "6", "7", "8", "9">>
IsDigit(c) == \E i \in DOMAIN DigitChars : DigitChars[i] = c
DigitVal(c) == (CHOOSE i \in DOMAIN DigitChars : DigitChars[i] = c) - 1

\* str.strip(): drop the white space at both ends
RECURSIVE LStrip(_)
LStrip(t) == IF t # <<>> /\ Head(t) = " " THEN LStrip(Tail(t)) ELSE t
RECURSIVE RStrip(_)
RStrip(t) == IF t # <<>> /\ t[Len(t)] = " " THEN RStrip(SubSeq(t, 1, Len(t) - 1)) ELSE t
Strip(t) == RStrip(LStrip(t))

\* str.replace(",", ""): drop every comma
RemoveCommas(t) == SelectSeq(t, LAMBDA c : c # ",")

RECURSIVE DigitsValue(_, _)
DigitsValue(t, acc) ==
    IF t = <<>> THEN acc ELSE DigitsValue(Tail(t), 10 * acc + DigitVal(Head(t)))

\* int(txt): white space at both ends is accepted, then an optional sign and
\* one or more decimal digits; anything else raises ValueError
PyInt(txt) ==
    LET t == Strip(txt)
        signed == t # <<>> /\ Head(t) \in {"-", "+"}
        body == IF signed THEN Tail(t) ELSE t
    IN  IF body # <<>> /\ \A i \in DOMAIN body : IsDigit(body[i])
        THEN [raised |-> "none",
              val |-> IF signed /\ Head(t) = "-" THEN 0 - DigitsValue(body, 0)
                      ELSE DigitsValue(body, 0)]
        ELSE [raised |-> "ValueError:int", val |-> 0]

\* a reply of autoit.control_get_text: a text, or the binding's error when
\* the control cannot be located
ControlMissing == <<"AutoItError">>

read_int_field(reply) ==
    IF reply = ControlMissing
    THEN [raised |-> "AutoItError", val |-> 0]
    ELSE PyInt(RemoveCommas(Strip(reply)))

\* ------------------------------------------------------- meas_dir.py: meas_dir
\* np.mean of a sample array: sum / n
np_mean(a) == <<SumSeq(a), Len(a)>>

\* mutant of np_std: the sample standard deviation (ddof = 1)
np_std_ddof1(a) ==
    LET n == Len(a)
        S == SumSeq(a)
    IN  <<SumSeq([i \in 1..n |-> (n * a[i] - S) * (n * a[i] - S)]), n * n * (n - 1)>>

\* np.std of a sample array (ddof = 0), carried by its square:
\* mean(abs(x - x.mean()) ** 2) = sum((n*x - S)^2) / n^3
np_std(a) ==
    LET n == Len(a)
        S == SumSeq(a)
    IN  <<SumSeq([i \in 1..n |-> (n * a[i] - S) * (n * a[i] - S)]), n * n * n>>

\* the best-effort window check of lines 75-81.  src.win is the answer of
\* autoit.win_exists: "1", "0", or "error" (the binding fails).  The error and
\* the RuntimeError raised on "0" both end in "except Exception: pass":
\* nothing is raised to the caller; swallowed records what was dropped
window_check(src) ==
    LET inner == IF src.win = "error" THEN "AutoItError"
                 ELSE IF src.win = "0" THEN "RuntimeError:window"
                 ELSE "none"
    IN  [raised |-> "none", swallowed |-> inner, log |-> <<"win_exists">>]

\* one pass of the loop body of lines 87-94 and the passes after it;
\* st = [V, H, C, log, raised], i counts from 0
RECURSIVE read_loop(_, _, _, _)
read_loop(times, src, i, st) ==
    IF i >= times \/ st.raised # "none" THEN st
    ELSE
      LET rV == read_int_field(src.reply[3 * i + 1])
          rH == read_int_field(src.reply[3 * i + 2])
          rC == read_int_field(src.reply[3 * i + 3])
          logV == st.log \o <<"read:V">>
          logH == logV \o <<"read:H">>
          logC == logH \o <<"read:C">>
      IN  IF rV.raised # "none"
          THEN [st EXCEPT !.log = logV, !.raised = rV.raised]
          ELSE IF rH.raised # "none"
          THEN [st EXCEPT !.V[i + 1] = rV.val, !.log = logH, !.raised = rH.raised]
          ELSE IF rC.raised # "none"
          THEN [st EXCEPT !.V[i + 1] = rV.val, !.H[i + 1] = rH.val,
                          !.log = logC, !.raised = rC.raised]
          ELSE read_loop(times, src, i + 1,
                         [st EXCEPT !.V[i + 1] = rV.val, !.H[i + 1] = rH.val,
                                    !.C[i + 1] = rC.val,
                                    !.log = logC \o <<"sleep">>])

\* lines 75-100: the window check, the sample arrays, the loop, the statistics
sample_body(times, src) ==
    LET w == window_check(src)
        zeros == [i \in 1..times |-> 0]
        st == read_loop(times, src, 0,
                        [V |-> zeros, H |-> zeros, C |-> zeros,
                         log |-> w.log, raised |-> w.raised])
    IN  IF st.raised # "none"
        THEN [raised |-> st.raised, ret |-> <<>>, log |-> st.log]
        ELSE [raised |-> "none",
              ret |-> <<np_mean(st.V), np_mean(st.H), np_mean(st.C),
                        np_std(st.V), np_std(st.H), np_std(st.C)>>,
              log |-> st.log]

\* mutant of meas_dir: the guard lets times = 0 through
meas_dir_guard_lt(times, src) ==
    IF times < 0
    THEN [raised |-> "ValueError:times", ret |-> <<>>, log |-> <<>>]
    ELSE sample_body(times, src)

\* meas_dir(times) against the reading source src = [win, reply]:
\* [raised, ret, log], log = the calls made to the source and to time.sleep.
\* controls is the default mapping (no caller passes another), so the
\* KeyError branch of line 92 is not taken
meas_dir(times, src) ==
    IF times <= 0
    THEN [raised |-> "ValueError:times", ret |-> <<>>, log |-> <<>>]
    ELSE sample_body(times, src)

\* ------------------------------------------------ hom_scan.py: grid arithmetic
\* Python 3 round(num / den) for den > 0, num >= 0: to nearest, ties to even
py_round(num, den) ==
    LET q == num \div den
        r == num % den
    IN  IF 2 * r < den THEN q
        ELSE IF 2 * r > den THEN q + 1
        ELSE IF q % 2 = 0 THEN q ELSE q + 1

\* np.arange(start, stop, step) for step > 0: start + k*step for every k with
\* start + k*step < stop, i.e. ceil((stop - start) / step) entries
np_arange(start, stop, step) ==
    LET n == IF stop > start THEN (stop - start + step - 1) \div step ELSE 0
    IN  [k \in 1..n |-> start + (k - 1) * step]

\* mutant of N_GRID: the line arrays are one cell shorter
N_GRID_no_pad == py_round(N_PAS_COUNTS, STEP_COUNTS)

\* line 57: N_GRID = int(round(N_PAS_COUNTS / STEP_COUNTS) + 1)
N_GRID == py_round(N_PAS_COUNTS, STEP_COUNTS) + 1

\* line 58: Y_COUNTS = np.arange(0, N_PAS_COUNTS, STEP_COUNTS)
Y_COUNTS == np_arange(0, N_PAS_COUNTS, STEP_COUNTS)

\* line 167: T_vec = np.arange(T_START, T_STOP, T_STEP), in ticks
T_vec == np_arange(T_START, T_STOP, T_STEP)

\* mutant of out_name: the set point rounded to a whole degree
out_name_whole(tset) == py_round(tset, 10 * TICKS_PER_TENTH)

\* line 225: round(tset, 1), in tenths of a degree; names the output file
out_name(tset) == py_round(tset, TICKS_PER_TENTH)

\* mutant of zaber_write: "if not data" in place of "if data is None", so a
\* payload of 0 is sent as no payload
zaber_write_falsy(device_number, command_number, data) ==
    [device |-> device_number, command |-> command_number,
     data |-> IF data = <<0>> THEN <<>> ELSE data]

\* lines 97-108: the frame zaber_write hands to serial_port.write;
\* data is <<>> for "no payload" and <<int(data)>> otherwise
zaber_write(device_number, command_number, data) ==
    [device |-> device_number, command |-> command_number, data |-> data]

\* ------------------------------------------------------------- the apparatus
\* what the three counters show: per channel the text on even and on odd
\* passes of a sample call.  Level 1 is steady at V=10, H=10, C=5; level 2
\* has V = H = 0 and a C that flickers between 3 and 5
Levels ==
    << << << <<"1", "0">>, <<"1", "0">> >>,
          << <<"1", "0">>, <<"1", "0">> >>,
          << <<"5">>, <<"5">> >> >>,
       << << <<"0">>, <<"0">> >>,
          << <<" ", "0">>, <<"0">> >>,
          << <<"3">>, <<"5", " ">> >> >> >>

BadText == <<"x">>
WinAnswers == {"1", "0", "error"}
ReadFaults == {BadText, ControlMissing}

\* the replies the source gives to the 3 * times reads of one sample call at
\* level lvl; fault = <<>> for none, or <<f, reply>>: read f answers reply
LevelSource(win, lvl, times, fault) ==
    [win |-> win,
     reply |-> [n \in 1..(3 * times) |->
                  IF fault # <<>> /\ fault[1] = n THEN fault[2]
                  ELSE Levels[lvl][((n - 1) % 3) + 1][(((n - 1) \div 3) % 2) + 1]]]

\* lines 130-136: measure_point calls the global name meas_dir_1sec.  The
\* module imports only meas_dir (line 35), so the name resolves only where
\* the environment has put it into the module's globals; unresolved, the
\* call raises NameError
measure_point(binding, src) ==
    IF binding = "undefined"
    THEN [raised |-> "NameError", ret |-> <<>>, log |-> <<>>]
    ELSE meas_dir(MEAS_SECONDS, src)

CountReads(log) == Len(SelectSeq(log, LAMBDA e : e \in {"read:V", "read:H", "read:C"}))

ZeroRow == <<FracOfInt(0), FracOfInt(0), FracOfInt(0), FracOfInt(0), FracOfInt(0), FracOfInt(0)>>

\* mutant of vis_proxy: the zero denominator is not replaced by nan
vis_proxy_unguarded(r) ==
    LET sum == <<r[1][1] * r[2][2] + r[2][1] * r[1][2], r[1][2] * r[2][2]>>
    IN  IF FracIsZero(sum)
        THEN [raised |-> "ZeroDivisionError", nan |-> FALSE, val |-> FracOfInt(0)]
        ELSE [raised |-> "none", nan |-> FALSE,
              val |-> <<r[3][1] * sum[2], r[3][2] * sum[1]>>]

\* lines 217-218: denom is V + H, or nan when V + H = 0; the visibility
\* proxy is C / denom, or nan when denom is nan.  A float division by zero
\* would raise ZeroDivisionError
vis_proxy(r) ==
    LET sum == <<r[1][1] * r[2][2] + r[2][1] * r[1][2], r[1][2] * r[2][2]>>
        denom == IF ~FracIsZero(sum) THEN [nan |-> FALSE, val |-> sum]
                 ELSE [nan |-> TRUE, val |-> FracOfInt(0)]
    IN  IF denom.nan
        THEN [raised |-> "none", nan |-> TRUE, val |-> FracOfInt(0)]
        ELSE IF FracIsZero(denom.val)
        THEN [raised |-> "ZeroDivisionError", nan |-> FALSE, val |-> FracOfInt(0)]
        ELSE [raised |-> "none", nan |-> FALSE,
              val |-> <<r[3][1] * denom.val[2], r[3][2] * denom.val[1]>>]

NoCall == [raised |-> "nocall", ret |-> <<>>, log |-> <<>>]

\* ------------------------------------------------------------ initial states
SamplerIdle ==
    /\ s_times = 0
    /\ s_src = [win |-> "1", reply |-> <<>>]
    /\ s_out = NoCall

MainIdle ==
    /\ pc = "open_port"
    /\ port_y = "unopened"
    /\ tc = "unopened"
    /\ ti = 0
    /\ pos_idx = 0
    /\ jj = 0
    /\ line = <<>>
    /\ reading = ZeroRow
    /\ files = <<>>
    /\ raised = "none"
    /\ drift = 0
    /\ frames = <<>>
    /\ setpoints = <<>>
    /\ reads = 0
    /\ console = <<>>
    /\ measured = <<>>
    /\ written = <<>>
    /\ closes = <<>>
    /\ events = <<>>

\* a run of main(): the configuration is any of the bounded grids, the
\* counters start at any level, meas_dir_1sec is resolved or not
Init ==
    /\ SamplerIdle
    /\ N_PAS_COUNTS \in 1..MaxTravel
    /\ STEP_COUNTS \in 1..MaxStep
    /\ T_STEP \in 1..MaxTStep
    /\ T_STOP \in (T_START + 1)..(T_START + MaxTSpan)
    /\ meas_dir_1sec \in {"undefined", "meas_dir"}
    /\ src_level \in DOMAIN Levels
    /\ MainIdle

\* ------------------------------------------------------------------- main()
\* a phase of the temperature line ti; idx is the delay index it concerns,
\* -1 for the phases of the line as a whole
Ev(name, idx) == [ev |-> name, line |-> ti, idx |-> idx]

\* the steps of main that can raise besides the measurement, and what they raise
FailKind ==
    [open_port |-> "SerialException", pre_sleep |-> "KeyboardInterrupt",
     load_lut |-> "ExcelError", init_tc |-> "TC200Error",
     init_setpoint |-> "TC200Error",
     home_send |-> "SerialException", home_wait |-> "KeyboardInterrupt",
     set_temp |-> "TC200Error", stabilize |-> "KeyboardInterrupt",
     move_send |-> "SerialException", settle |-> "KeyboardInterrupt",
     save |-> "OSError"]

\* the positions inside the try block of lines 179-243
InTry(p) ==
    p \in {"for_t", "home_send", "home_wait", "set_temp", "stabilize", "reset",
           "for_pos", "move_send", "settle", "measure", "record", "save"}

\* mutant of on_raise: a failure inside the loop gives up the line and the
\* sweep goes on with the next temperature
on_raise_next_line(p) == IF InTry(p) THEN "for_t" ELSE "failed"

\* mutant of on_raise: a failed measurement is skipped and the sweep goes on
on_raise_skip(p) ==
    IF p = "measure" THEN "for_pos"
    ELSE IF InTry(p) THEN "close_port" ELSE "failed"

\* where an exception raised at position p takes the run: into the finally
\* block when p is inside the try, out of main otherwise
on_raise(p) == IF InTry(p) THEN "close_port" ELSE "failed"

\* a step raises: nothing of the step has taken effect
Fail ==
    /\ pc \in DOMAIN FailKind
    /\ raised' = FailKind[pc]
    /\ pc' = on_raise(pc)
    /\ UNCHANGED <<svars, cvars, evars, port_y, tc, ti, pos_idx, jj, line, reading, files>>
    /\ UNCHANGED events

\* line 145
OpenPort ==
    /\ pc = "open_port"
    /\ port_y' = "open"
    /\ pc' = "pre_sleep"
    /\ UNCHANGED <<svars, cvars, evars, tc, ti, pos_idx, jj, line, reading, files, raised>>
    /\ UNCHANGED events

\* line 146
PreLoopSleep ==
    /\ pc = "pre_sleep"
    /\ pc' = "load_lut"
    /\ UNCHANGED <<svars, cvars, evars, port_y, tc, ti, pos_idx, jj, line, reading, files, raised>>
    /\ UNCHANGED events

\* lines 149-155: the table is loaded when present and not used
LoadLUT ==
    /\ pc = "load_lut"
    /\ pc' = "init_tc"
    /\ UNCHANGED <<svars, cvars, evars, port_y, tc, ti, pos_idx, jj, line, reading, files, raised>>
    /\ UNCHANGED events

\* lines 159, 72-83
init_temperature_controller ==
    /\ pc = "init_tc"
    /\ tc' = "open"
    /\ pc' = "init_setpoint"
    /\ UNCHANGED <<svars, cvars, evars, port_y, ti, pos_idx, jj, line, reading, files, raised>>
    /\ UNCHANGED events

\* lines 162-164
InitialSetpoint ==
    /\ pc = "init_setpoint"
    /\ setpoints' = Append(setpoints, T_START)
    /\ pc' = "allocate"
    /\ UNCHANGED <<svars, cvars, port_y, tc, ti, pos_idx, jj, line, reading, files, raised,
                   src_level, drift, frames, reads, console, measured, written, closes>>
    /\ UNCHANGED events

\* lines 167-179: T_vec, the line arrays of N_GRID zeros, entry into the try
Allocate ==
    /\ pc = "allocate"
    /\ line' = [i \in 1..N_GRID |-> ZeroRow]
    /\ pc' = "for_t"
    /\ UNCHANGED <<svars, cvars, evars, port_y, tc, ti, pos_idx, jj, reading, files, raised>>
    /\ UNCHANGED events

\* line 180: for tset in T_vec
OuterFor ==
    /\ pc = "for_t"
    /\ IF ti < Len(T_vec)
       THEN /\ ti' = ti + 1
            /\ pc' = "home_send"
       ELSE /\ ti' = ti
            /\ pc' = "close_port"
    /\ UNCHANGED <<svars, cvars, evars, port_y, tc, pos_idx, jj, line, reading, files, raised>>
    /\ UNCHANGED events

\* lines 185, 115-116: the home frame
home_stage_send ==
    /\ pc = "home_send"
    /\ frames' = Append(frames, zaber_write(0, 1, <<>>))
    /\ pc' = "home_wait"
    /\ UNCHANGED <<svars, cvars, mvars_but_pc, src_level, drift, setpoints, reads, console,
                   measured, written, closes>>
    /\ events' = Append(events, Ev("home", 0 - 1))

\* lines 117-118: the fixed home wait
home_stage_wait ==
    /\ pc = "home_wait"
    /\ pc' = "set_temp"
    /\ UNCHANGED <<svars, cvars, evars, mvars_but_pc>>
    /\ events' = Append(events, Ev("home_wait", 0 - 1))

\* lines 188, 92: the set point of the line
set_temperature ==
    /\ pc = "set_temp"
    /\ setpoints' = Append(setpoints, T_vec[ti])
    /\ pc' = "stabilize"
    /\ UNCHANGED <<svars, cvars, mvars_but_pc, src_level, drift, frames, reads, console,
                   measured, written, closes>>
    /\ events' = Append(events, Ev("setpoint", 0 - 1))

\* lines 93-94: the fixed stabilization wait
wait_temperature ==
    /\ pc = "stabilize"
    /\ pc' = "reset"
    /\ UNCHANGED <<svars, cvars, evars, mvars_but_pc>>
    /\ events' = Append(events, Ev("stabilize_wait", 0 - 1))

\* mutant of np_fill: the arrays are left as they are
np_fill_keep(a) == a

\* ndarray.fill(0) on the six arrays: every cell zero, the length kept
np_fill(a) == [i \in DOMAIN a |-> ZeroRow]

\* lines 191-199: jj = 0 and the six arrays filled with zeros, in place
ResetLine ==
    /\ pc = "reset"
    /\ jj' = 0
    /\ line' = np_fill(line)
    /\ pos_idx' = 0
    /\ pc' = "for_pos"
    /\ UNCHANGED <<svars, cvars, evars, port_y, tc, ti, reading, files, raised>>
    /\ events' = Append(events, Ev("reset", 0 - 1))

\* line 202: for pos_counts in Y_COUNTS
InnerFor ==
    /\ pc = "for_pos"
    /\ IF pos_idx < Len(Y_COUNTS)
       THEN /\ pos_idx' = pos_idx + 1
            /\ pc' = "move_send"
       ELSE /\ pos_idx' = pos_idx
            /\ pc' = "save"
    /\ UNCHANGED <<svars, cvars, evars, port_y, tc, ti, jj, line, reading, files, raised>>
    /\ UNCHANGED events

\* mutant of move_stage_send: the measurement follows the frame at once,
\* without the settle wait
move_stage_send_no_settle ==
    /\ pc = "move_send"
    /\ frames' = Append(frames, zaber_write(0, 20, <<Y_COUNTS[pos_idx]>>))
    /\ pc' = "measure"
    /\ UNCHANGED <<svars, cvars, mvars_but_pc, src_level, drift, setpoints, reads, console,
                   measured, written, closes>>
    /\ events' = Append(events, Ev("move", pos_idx - 1))

\* lines 203, 126: the move-absolute frame
move_stage_send ==
    /\ pc = "move_send"
    /\ frames' = Append(frames, zaber_write(0, 20, <<Y_COUNTS[pos_idx]>>))
    /\ pc' = "settle"
    /\ UNCHANGED <<svars, cvars, mvars_but_pc, src_level, drift, setpoints, reads, console,
                   measured, written, closes>>
    /\ events' = Append(events, Ev("move", pos_idx - 1))

\* line 127: the fixed settle wait
move_stage_settle ==
    /\ pc = "settle"
    /\ pc' = "measure"
    /\ UNCHANGED <<svars, cvars, evars, mvars_but_pc>>
    /\ events' = Append(events, Ev("settle", pos_idx - 1))

MainFaults == {<<>>} \cup {<<f, rep>> : f \in 1..MaxFaultAt, rep \in ReadFaults}

\* line 206: V, H, C, eV, eH, eC = measure_point(), against what the apparatus
\* shows during the call
Measure ==
    /\ pc = "measure"
    /\ \E win \in WinAnswers, lvl \in DOMAIN Levels, fault \in MainFaults :
         /\ lvl = src_level \/ drift < MaxDrift
         /\ LET r == measure_point(meas_dir_1sec,
                                   LevelSource(win, lvl, MEAS_SECONDS, fault))
            IN  /\ src_level' = lvl
                /\ drift' = IF lvl = src_level THEN drift ELSE drift + 1
                /\ reads' = reads + CountReads(r.log)
                /\ events' = Append(events, Ev("measure", jj))
                /\ IF r.raised = "none"
                   THEN /\ reading' = r.ret
                        /\ measured' = Append(measured,
                                              [line |-> ti, idx |-> jj, val |-> r.ret])
                        /\ pc' = "record"
                        /\ raised' = raised
                   ELSE /\ raised' = r.raised
                        /\ pc' = on_raise(pc)
                        /\ UNCHANGED <<reading, measured>>
    /\ UNCHANGED <<svars, cvars, port_y, tc, ti, pos_idx, jj, line, files,
                   frames, setpoints, console, written, closes>>

\* lines 209-221: the six stores at index jj, the progress print, jj += 1
Record ==
    /\ pc = "record"
    /\ IF jj + 1 \in DOMAIN line
       THEN LET v == vis_proxy(reading)
            IN  /\ line' = [line EXCEPT ![jj + 1] = reading]
                /\ events' = Append(events, Ev("record", jj))
                /\ IF v.raised = "none"
                   THEN /\ console' = Append(console,
                                             [idx |-> jj, nan |-> v.nan, val |-> v.val])
                        /\ jj' = jj + 1
                        /\ pc' = "for_pos"
                        /\ raised' = raised
                   ELSE /\ raised' = v.raised
                        /\ pc' = on_raise(pc)
                        /\ UNCHANGED <<console, jj>>
       ELSE /\ raised' = "IndexError"
            /\ pc' = on_raise(pc)
            /\ UNCHANGED <<line, console, jj, events>>
    /\ UNCHANGED <<svars, cvars, port_y, tc, ti, pos_idx, reading, files,
                   src_level, drift, frames, setpoints, reads, measured, written, closes>>

\* the file np.savetxt leaves under out_path: a new file, or the old one replaced
savetxt(dir, key, rows) ==
    [k \in (DOMAIN dir) \cup {key} |-> IF k = key THEN rows ELSE dir[k]]

\* lines 225-240: all N_GRID rows of the six arrays go to the file named by
\* round(tset, 1)
Save ==
    /\ pc = "save"
    /\ files' = savetxt(files, out_name(T_vec[ti]), line)
    /\ written' = Append(written, [line |-> ti, key |-> out_name(T_vec[ti]), rows |-> line])
    /\ pc' = "for_t"
    /\ UNCHANGED <<svars, cvars, port_y, tc, ti, pos_idx, jj, line, reading, raised,
                   src_level, drift, frames, setpoints, reads, console, measured, closes>>
    /\ events' = Append(events, Ev("persist", 0 - 1))

\* lines 247-251: BinarySerial.close(port_y); an error of the close is printed
\* and dropped
ClosePort ==
    /\ pc = "close_port"
    /\ \E ok \in BOOLEAN :
         /\ closes' = Append(closes, [res |-> "port_y", ok |-> ok])
         /\ port_y' = IF ok THEN "closed" ELSE port_y
    /\ pc' = "release_tc"
    /\ UNCHANGED <<svars, cvars, tc, ti, pos_idx, jj, line, reading, files, raised,
                   src_level, drift, frames, setpoints, reads, console, measured, written>>
    /\ UNCHANGED events

\* lines 253-261: the second try only prints; no call is made on tc.  The
\* exception in flight, if any, then leaves main
ReleaseTC ==
    /\ pc = "release_tc"
    /\ pc' = IF raised = "none" THEN "done" ELSE "failed"
    /\ UNCHANGED <<svars, cvars, evars, mvars_but_pc>>
    /\ UNCHANGED events

Next ==
    \/ OpenPort \/ PreLoopSleep \/ LoadLUT \/ init_temperature_controller
    \/ InitialSetpoint \/ Allocate \/ OuterFor
    \/ home_stage_send \/ home_stage_wait \/ set_temperature \/ wait_temperature
    \/ ResetLine \/ InnerFor \/ move_stage_send \/ move_stage_settle
    \/ Measure \/ Record \/ Save \/ ClosePort \/ ReleaseTC \/ Fail

Spec == Init /\ [][Next]_vars

\* ------------------------------------------- meas_dir called on its own
\* the texts a counter field can show
SampleTexts == {<<"0">>, <<" ", "5", " ">>, <<"1", ",", "0", "0", "0">>}
Replies == SampleTexts \cup ReadFaults

IsFault(reply) == read_int_field(reply).raised # "none"

\* the source has already answered a read with a fault
Faulted(src) ==
    IF src.reply = <<>> THEN FALSE ELSE IsFault(src.reply[Len(src.reply)])

\* a call meas_dir(times) for any times in -1..MaxTimes; the source is built
\* reply by reply by SupplyReply and then handed to the call
SInit ==
    /\ s_times \in (0 - 1)..MaxTimes
    /\ s_src \in {[win |-> w, reply |-> <<>>] : w \in WinAnswers}
    /\ s_out = NoCall
    /\ N_PAS_COUNTS = 1
    /\ STEP_COUNTS = 1
    /\ T_STEP = 1
    /\ T_STOP = T_START + 1
    /\ meas_dir_1sec = "undefined"
    /\ src_level = 1
    /\ MainIdle

\* the source holds one more reply for the reads to come
SupplyReply ==
    /\ s_out = NoCall
    /\ Len(s_src.reply) < 3 * Max(s_times, 1)
    /\ ~Faulted(s_src)
    /\ \E r \in Replies : s_src' = [s_src EXCEPT !.reply = Append(@, r)]
    /\ UNCHANGED <<s_times, s_out, cvars, mvars, evars>>
    /\ UNCHANGED events

\* meas_dir(times): the source answers every read the call can make
CallMeasDir ==
    /\ s_out = NoCall
    /\ Len(s_src.reply) >= 3 * Max(s_times, 1) \/ Faulted(s_src)
    /\ s_out' = meas_dir(s_times, s_src)
    /\ UNCHANGED <<s_times, s_src, cvars, mvars, evars>>
    /\ UNCHANGED events

SNext == SupplyReply \/ CallMeasDir

SpecSample == SInit /\ [][SNext]_vars

\* ======================================================================
\* Claims
\* ======================================================================
RunEnded == pc \in {"done", "failed"}

\* the errors a step of main or the reading source can be made to raise
InjectedFailures ==
    {FailKind[p] : p \in DOMAIN FailKind} \cup {"ValueError:int", "AutoItError"}

Released(res) == \E i \in DOMAIN closes : closes[i].res = res

\* the readings measure_point returned during line l, by write index
MeasuredAt(l, idx) ==
    {measured[i].val : i \in {n \in DOMAIN measured :
                                measured[n].line = l /\ measured[n].idx = idx}}

\* C1: whenever a run that entered the temperature loop has ended, normally
\* or by a failure in the loop, a release of the actuator transport and a
\* release of the temperature-controller session have both been performed.
C1_BothReleasedAtEnd ==
    (RunEnded /\ ti >= 1) => (Released("port_y") /\ Released("tc"))

\* C2: when no step fails and the reading source never fails, the run ends
\* in success with one record per temperature entry, each of one row per
\* delay entry, row jj being the reading taken at delay index jj.
C2_FullRunWritesAllRecords ==
    (RunEnded /\ raised \notin InjectedFailures) =>
        /\ pc = "done"
        /\ Len(written) = Len(T_vec)
        /\ \A n \in DOMAIN written :
             /\ written[n].line = n
             /\ Len(written[n].rows) = Len(Y_COUNTS)
             /\ \A i \in DOMAIN written[n].rows :
                  written[n].rows[i] \in MeasuredAt(n, i - 1)

LineComplete(l) == \A p \in DOMAIN Y_COUNTS : MeasuredAt(l, p - 1) # {}

MeasurementErrors == {"NameError", "ValueError:int", "AutoItError", "ValueError:times"}

\* the rows of the last record written under key k
LastWritten(k) ==
    LET ns == {n \in DOMAIN written : written[n].key = k}
    IN  written[CHOOSE n \in ns : \A m \in ns : m <= n].rows

\* C3: a record is written only for a line whose inner loop covered every
\* delay entry; when a measurement fails, no record of that line exists and
\* the records of the earlier lines are present as they were written.
C3_RecordOnlyAfterCompleteLine ==
    /\ \A n \in DOMAIN written : LineComplete(written[n].line)
    /\ raised \in MeasurementErrors =>
         /\ \A n \in DOMAIN written : written[n].line < ti
         /\ DOMAIN files = {written[n].key : n \in DOMAIN written}
         /\ \A k \in DOMAIN files : files[k] = LastWritten(k)

\* C3 witness: a parse error at the second delay position of the second
\* line, the first line persisted, the run over
C3_Witness ==
    /\ pc = "failed"
    /\ raised = "ValueError:int"
    /\ ti = 2
    /\ jj = 1
    /\ Len(written) = 1
    /\ DOMAIN files # {}

\* C4: when the reading source reports that the window cannot be located,
\* the sample call fails with the source-unavailable error (RuntimeError)
\* and makes no read after the report.
C4_WindowNotFoundRaises ==
    (s_out # NoCall /\ s_times > 0 /\ s_src.win = "0") =>
        (s_out.raised = "RuntimeError:window" /\ CountReads(s_out.log) = 0)

\* C5: for every times <= 0 the call fails with the invalid-argument error
\* (ValueError on times) and has made no call to the reading source.
C5_NonPositiveTimesRejected ==
    (s_out # NoCall /\ s_times <= 0) =>
        (s_out.raised = "ValueError:times" /\ s_out.log = <<>>)

\* C5 witness: a call with times <= 0 against a source that had replies ready
C5_Witness ==
    /\ s_out # NoCall
    /\ s_times <= 0
    /\ Len(s_src.reply) = 3

\* the number a counter text stands for
ShownValue(t) ==
    CASE t = <<"0">> -> 0
      [] t = <<" ", "5", " ">> -> 5
      [] t = <<"1", ",", "0", "0", "0">> -> 1000

\* the scalars the source supplied for channel k (1 = V, 2 = H, 3 = C)
ChannelScalars(k) == [i \in 1..s_times |-> ShownValue(s_src.reply[3 * (i - 1) + k])]

SumOfSquares(xs) == SumSeq([i \in DOMAIN xs |-> xs[i] * xs[i]])

\* C6: a successful call returns (V_mean, H_mean, C_mean, V_std, H_std, C_std)
\* with, per channel, mean = sum/n and std^2 = (n*sum(x^2) - sum(x)^2) / n^2
\* of exactly the scalars supplied for that channel.
C6_MeanAndPopulationStd ==
    (s_out.raised = "none") =>
        /\ Len(s_out.ret) = 6
        /\ \A k \in 1..3 :
             LET xs == ChannelScalars(k)
                 n == s_times
                 S == SumSeq(xs)
             IN  /\ FracEq(s_out.ret[k], <<S, n>>)
                 /\ FracEq(s_out.ret[3 + k], <<n * SumOfSquares(xs) - S * S, n * n>>)

\* C6 witness: a successful call with two or more passes, a V that varies
\* and three channels with three different means
C6_Witness ==
    /\ s_out.raised = "none"
    /\ s_times >= 2
    /\ ~FracIsZero(s_out.ret[4])
    /\ ~FracEq(s_out.ret[1], s_out.ret[2])
    /\ ~FracEq(s_out.ret[2], s_out.ret[3])
    /\ ~FracEq(s_out.ret[1], s_out.ret[3])

\* C7: the number of delay positions swept in the inner loop equals the
\* length of the line buffer, so every row of a written record is a delay
\* position measured in that line.
C7_SweptEqualsGridSize ==
    /\ pc = "save" => (pos_idx = N_GRID /\ jj = Len(line))
    /\ \A n \in DOMAIN written : \A i \in DOMAIN written[n].rows :
         MeasuredAt(written[n].line, i - 1) # {}

\* C8: when the total travel is not an exact multiple of the step,
\* round(travel / step) + 1 equals floor(travel / step) + 1.
C8_RoundEqualsFloor ==
    (N_PAS_COUNTS % STEP_COUNTS # 0) => (N_GRID = (N_PAS_COUNTS \div STEP_COUNTS) + 1)

CellsOfLine(buf, l) ==
    \A i \in DOMAIN buf : buf[i] = ZeroRow \/ buf[i] \in MeasuredAt(l, i - 1)

\* C9 as stated: in every reachable state each cell of the line buffer is
\* zero or a value recorded during the current temperature line.
C9_NoStaleCellInAnyState == CellsOfLine(line, ti)

\* the positions of a line from its buffer reset to its persistence
AfterReset == pc \in {"for_pos", "move_send", "settle", "measure", "record", "save"}

\* C9 amended: from the reset of a line's buffer until the line is persisted
\* each cell is zero or a value recorded during that line, and so is every
\* row of every written record; before the reset (homing, stabilizing) the
\* buffer still holds the previous line.
C9_NoStaleCellAfterReset ==
    /\ AfterReset => CellsOfLine(line, ti)
    /\ \A n \in DOMAIN written : CellsOfLine(written[n].rows, written[n].line)

\* C9 witness: in the second line, index 0 recorded anew, index 1 recorded in
\* the first line and zero now
C9_Witness ==
    /\ ti = 2
    /\ pc = "move_send"
    /\ jj = 1
    /\ Len(line) >= 2
    /\ line[1] # ZeroRow
    /\ line[2] = ZeroRow
    /\ MeasuredAt(1, 1) # {}

\* every record written under a key of its own and still in its file
WrittenOnce ==
    /\ \A a, b \in DOMAIN written : a # b => written[a].key # written[b].key
    /\ \A n \in DOMAIN written :
         /\ written[n].key \in DOMAIN files
         /\ files[written[n].key] = written[n].rows

\* C10 as stated: for every temperature grid distinct entries have distinct
\* keys round(tset, 1), so no record is written twice or replaced.
C10_WrittenOnceForEveryGrid == WrittenOnce

\* C10 amended: for every grid that starts on a multiple of 0.1 degC and
\* whose step is at least 0.1 degC, distinct entries have distinct keys and
\* every record is written once and never replaced.
C10_WrittenOnceForCoarseGrid ==
    (T_START % TICKS_PER_TENTH = 0 /\ T_STEP >= TICKS_PER_TENTH) =>
        /\ \A i, j \in DOMAIN T_vec : i # j => out_name(T_vec[i]) # out_name(T_vec[j])
        /\ WrittenOnce

\* C10 witness: a grid of step >= 0.1 degC with two lines persisted
C10_Witness ==
    /\ T_STEP >= TICKS_PER_TENTH
    /\ Len(written) = 2
    /\ Cardinality(DOMAIN files) = 2

\* C11: when a step of the initialization fails after the actuator transport
\* was opened (the table load, the opening of the temperature controller, the
\* initial set point), a release of the transport has been performed by the
\* time the run has ended.
C11_PortReleasedAfterInitFailure ==
    (RunEnded /\ port_y # "unopened" /\ ti = 0 /\ raised # "none") =>
        Released("port_y")

\* the close of the actuator transport was called and raised
CloseFailed == \E i \in DOMAIN closes : closes[i] = [res |-> "port_y", ok |-> FALSE]

\* C12: when the loop body failed with an error and the close of the actuator
\* transport then failed too, the run ends as failed with the error of the
\* loop body, and a release of the temperature-controller session has been
\* attempted.
C12_SecondReleaseAfterFailedClose ==
    (RunEnded /\ raised # "none" /\ CloseFailed) =>
        /\ pc = "failed"
        /\ raised \in InjectedFailures \cup MeasurementErrors
        /\ Released("tc")

\* the frame at place k of a temperature line: place 0 is the home frame,
\* place k >= 1 the move to the k-th delay entry
LineFrame(grid, k) ==
    IF k = 0 THEN [device |-> 0, command |-> 1, data |-> <<>>]
    ELSE [device |-> 0, command |-> 20, data |-> <<grid[k]>>]

FramesPerLine == Len(Y_COUNTS) + 1

\* C13: the frames sent in a run are, line after line, one home frame
\* (device 0, command 1, no payload) followed by one move-absolute frame
\* (device 0, command 20, payload the delay entry) per delay entry in grid
\* order; a line that is persisted has sent all of its frames, and no frame
\* beyond those of the temperature lines is ever sent.
C13_FramesOfEveryLine ==
    LET grid == Y_COUNTS
        per == FramesPerLine
    IN  /\ \A n \in DOMAIN frames : frames[n] = LineFrame(grid, (n - 1) % per)
        /\ Len(frames) <= Len(T_vec) * per
        /\ pc = "save" => Len(frames) = ti * per
        /\ \A k \in DOMAIN written : Len(frames) >= written[k].line * per

\* C13 witness: two lines of at least two delay entries each were completed
\* and the run is over
C13_Witness ==
    /\ pc = "done"
    /\ Len(Y_COUNTS) >= 2
    /\ Len(written) >= 2
    /\ Len(frames) = Len(written) * FramesPerLine

\* the phase that must come immediately before phase e of a run; the first
\* phase of a run, the homing of line 1, has none
PhaseBefore(e) ==
    LET ph(name, i) == [ev |-> name, line |-> e.line, idx |-> i]
    IN  CASE e.ev = "home" ->
               [ev |-> "persist", line |-> e.line - 1, idx |-> 0 - 1]
          [] e.ev = "home_wait" -> ph("home", 0 - 1)
          [] e.ev = "setpoint" -> ph("home_wait", 0 - 1)
          [] e.ev = "stabilize_wait" -> ph("setpoint", 0 - 1)
          [] e.ev = "reset" -> ph("stabilize_wait", 0 - 1)
          [] e.ev = "move" ->
               IF e.idx = 0 THEN ph("reset", 0 - 1) ELSE ph("record", e.idx - 1)
          [] e.ev = "settle" -> ph("move", e.idx)
          [] e.ev = "measure" -> ph("settle", e.idx)
          [] e.ev = "record" -> ph("measure", e.idx)
          [] e.ev = "persist" -> ph("record", Len(Y_COUNTS) - 1)

\* C14: every phase a step of the run enters is the successor of the phase
\* entered last: within each temperature line the phases follow one another as
\* home, home wait, set point, stabilization wait, buffer reset, then move,
\* settle wait, measure, record for delay index 0, 1, ... in turn, then
\* persist; so a measurement at index jj comes after the move frame and the
\* settle wait of that index, a move comes after the home wait and the
\* stabilization wait of its line, and a line is persisted only after the
\* record of its last delay index.
C14_PhasesInOrder ==
    [][events' # events =>
         LET e == events'[Len(events')]
         IN  /\ events' = Append(events, e)
             /\ IF events = <<>>
                THEN e = [ev |-> "home", line |-> 1, idx |-> 0 - 1]
                ELSE events[Len(events)] = PhaseBefore(e)]_vars

\* C14 witness: the second line of a grid of at least two delay entries has
\* been persisted
C14_Witness ==
    /\ Len(Y_COUNTS) >= 2
    /\ \E n \in DOMAIN events : events[n].ev = "persist" /\ events[n].line = 2

\* the number of entries of log equal to x
CountOf(log, x) == Cardinality({i \in DOMAIN log : log[i] = x})

\* C15: a successful call meas_dir(n), n > 0, sleeps the inter-read pause
\* n - 1 times, and not after the final read.
C15_SleepOnlyBetweenReads ==
    (s_out.raised = "none" /\ s_times > 0) =>
        /\ CountOf(s_out.log, "sleep") = s_times - 1
        /\ s_out.log[Len(s_out.log)] # "sleep"

\* C16: from the first fatal error on, every step of the run leaves the
\* frames sent, the set points written, the reads made, the readings taken,
\* the records written and the phases entered as they are, keeps the error,
\* and leads only through the releases of the finally block to the end of
\* the run.
C16_NothingAfterFatalError ==
    [][raised # "none" =>
         /\ frames' = frames
         /\ setpoints' = setpoints
         /\ reads' = reads
         /\ measured' = measured
         /\ written' = written
         /\ files' = files
         /\ events' = events
         /\ raised' = raised
         /\ pc \in {"close_port", "release_tc"}
         /\ pc' \in {"release_tc", "failed"}]_vars

\* C16 witness: the first move frame of line 1 failed with delay positions
\* and temperature lines still to go; the run went through the close of the
\* port and ended failed, with the home frame the only frame sent
C16_Witness ==
    /\ pc = "failed"
    /\ raised = "SerialException"
    /\ ti = 1
    /\ ti < Len(T_vec)
    /\ pos_idx = 1
    /\ pos_idx < Len(Y_COUNTS)
    /\ Len(frames) = 1
    /\ Len(setpoints) = 2
    /\ written = <<>>
    /\ Released("port_y")

\* C17: at every store of a reading the write index jj is at least 0 and
\* below both the number of delay entries and the length of the line
\* arrays, which is N_GRID; the positions swept
\* so far never exceed that length and no IndexError is ever raised, for
\* every travel and step of the bounded grids.
C17_WriteIndexInRange ==
    /\ pc = "record" =>
         /\ 0 <= jj
         /\ jj < Len(line)
         /\ jj < Len(Y_COUNTS)
         /\ Len(line) = N_GRID
         /\ pos_idx <= Len(line)
    /\ raised # "IndexError"

\* C17 witness: a store into the last cell of the line arrays, on a grid
\* whose delay entries are as many as the cells
C17_Witness ==
    /\ pc = "record"
    /\ jj = Len(line) - 1
    /\ Len(Y_COUNTS) = N_GRID

\* the stores of readings made so far in the run
Stores == {n \in DOMAIN events : events[n].ev = "record"}

\* C18: the progress ratio is printed and nothing else: no run fails by a
\* division by zero, every store is followed by one printed observation,
\* the cells of the line arrays filled so far hold the readings
\* measure_point returned at their index, and row jj of every record
\* written is the six values (V, H, C, eV, eH, eC) returned for delay index
\* jj, the rows past the delay entries being the zeros of the reset.
C18_RatioIsSideObservation ==
    /\ raised # "ZeroDivisionError"
    /\ Len(console) = Cardinality(Stores)
    /\ pc \in {"for_pos", "move_send", "settle", "measure", "record", "save"} =>
         \A i \in 1..jj : MeasuredAt(ti, i - 1) = {line[i]}
    /\ LET swept == Len(Y_COUNTS)
       IN  \A n \in DOMAIN written :
               \A i \in DOMAIN written[n].rows :
                   IF i <= swept
                   THEN /\ Len(written[n].rows[i]) = 6
                        /\ MeasuredAt(written[n].line, i - 1) = {written[n].rows[i]}
                   ELSE written[n].rows[i] = ZeroRow

\* C18 witness: a run ended in success after printing an undefined ratio
\* for a reading with V + H = 0, and that reading is a row of a record
C18_Witness ==
    /\ pc = "done"
    /\ \E c \in DOMAIN console : console[c].nan
    /\ \E n \in DOMAIN written :
         \E i \in 1..Len(Y_COUNTS) :
             /\ FracIsZero(written[n].rows[i][1])
             /\ FracIsZero(written[n].rows[i][2])
             /\ ~FracIsZero(written[n].rows[i][3])

====
